---- MODULE Spec2Model ----
(***************************************************************************)
(* Formulation compiler for the multi-mode resource-constrained project    *)
(* scheduling problem (gwvdh/linked-MRCPSP).                               *)
(*                                                                         *)
(* src/src/utils.py        bound estimator (earliest / latest start)       *)
(* src/src/pulse.py        pulse encodings (aggregated / disaggregated)    *)
(* src/src/step.py         step encodings (aggregated / disaggregated)     *)
(* src/src/onoff.py        on-off encoding                                 *)
(* src/src/onoff_pulse.py  on-off-pulse encodings                          *)
(* src/src/continuous.py   continuous-time encoding                        *)
(* src/src/test.py         comparison harness test_models                  *)
(*                                                                         *)
(* Activities are 0..n-1, modes 0..M-1, instants 0..T-1, resources 0..K-1, *)
(* as in the source.  E and L are sequences of pairs <<i, j>>.  A 0/1      *)
(* assignment of an indicator family v[i,m,t] is kept per activity as the  *)
(* set of cells <<m, t>> whose indicator is 1.                             *)
(***************************************************************************)
EXTENDS Integers, Sequences, FiniteSets, TLC

VARIABLES
    input_base,   \* the instance the caller of test_models owns
    input,        \* the dict handed to a builder (test.py:17); its p is the list the builder writes
    VP,           \* the non-ordered pairs derived by the caller (test.py:18)
    models,       \* the encodings test_models still has to run
    pc,           \* position in test_models / in the bound estimator run
    model,        \* the model a builder returned
    divisor,      \* the divisor a builder returned
    earliest,     \* earliest_starting_times of the last estimator call
    latest,       \* latest_starting_times of the last estimator call
    sol,          \* the assignment the solver currently holds
    status,       \* model.status
    objVal,       \* model.objVal
    results       \* the list test_models returns

vars == <<input_base, input, VP, models, pc, model, divisor, earliest, latest,
          sol, status, objVal, results>>

(***************************************************************************)
(* Bounds of the model.                                                    *)
(***************************************************************************)
MaxT == 4        \* largest horizon T of an instance
MaxDur == 2      \* largest duration p[i][m] of an instance
MaxReq == 2      \* largest requirement r[i][m][k] of an instance
MaxEdges == 2    \* longest edge list drawn for the bound estimator on its own
MaxSlack == 1    \* a continuous start time is searched up to T + MaxSlack
MaxChainT == 6   \* largest horizon T of the one-mode chain of duration 3

(***************************************************************************)
(* Arithmetic helpers.                                                     *)
(***************************************************************************)
Max(a, b) == IF a >= b THEN a ELSE b
Min(a, b) == IF a <= b THEN a ELSE b

\* quicksum(F(t) for t in range(lo, hi + 1))
RECURSIVE SumR(_, _, _)
SumR(F(_), lo, hi) == IF lo > hi THEN 0 ELSE F(lo) + SumR(F, lo + 1, hi)

\* quicksum over the entries of a sequence
RECURSIVE SumSeq(_, _, _)
SumSeq(F(_), s, k) == IF k > Len(s) THEN 0 ELSE F(s[k]) + SumSeq(F, s, k + 1)

RECURSIVE SetMin(_)
SetMin(S) == LET v == CHOOSE v \in S : TRUE
             IN  IF S = {v} THEN v ELSE Min(v, SetMin(S \ {v}))

RECURSIVE Gcd(_, _)
Gcd(a, b) == IF b = 0 THEN a ELSE Gcd(b, a % b)

RECURSIVE GcdSet(_)
GcdSet(S) == IF S = {} THEN 0
             ELSE LET v == CHOOSE v \in S : TRUE IN Gcd(v, GcdSet(S \ {v}))

Acts(n) == 0..(n - 1)
Modes(M) == 0..(M - 1)
Times(T) == 0..(T - 1)
Res(R) == DOMAIN R

\* min(p[j][m] for m in range(M)) and max(p[j][m] for m in range(M))
MinDur(p, j, M) == SetMin({p[j][m] : m \in Modes(M)})
MaxOverModes(p, j, M) == -SetMin({-p[j][m] : m \in Modes(M)})

(***************************************************************************)
(* Bound estimator, src/src/utils.py.                                      *)
(***************************************************************************)
\* the loop over E with the slowest mode of the predecessor
RECURSIVE EarliestEdgesSlowest(_, _, _, _, _, _)
EarliestEdgesSlowest(est, i, E, p, M, k) ==
    IF k > Len(E) THEN est
    ELSE LET j == E[k][1]
             h == E[k][2]
         IN  IF h = i
             THEN EarliestEdgesSlowest(
                      [est EXCEPT ![i] = Max(est[j] + MaxOverModes(p, j, M), est[i])],
                      i, E, p, M, k + 1)
             ELSE EarliestEdgesSlowest(est, i, E, p, M, k + 1)

\* utils.py:23-26, the loop over E for one activity i, from edge k on.
RECURSIVE EarliestEdges(_, _, _, _, _, _)
EarliestEdges(est, i, E, p, M, k) ==
    IF k > Len(E) THEN est
    ELSE LET j == E[k][1]
             h == E[k][2]
         IN  IF h = i
             THEN EarliestEdges([est EXCEPT ![i] = Max(est[j] + MinDur(p, j, M), est[i])],
                                i, E, p, M, k + 1)
             ELSE EarliestEdges(est, i, E, p, M, k + 1)

\* the sweep with range(1, n-1): the last activity is never visited
RECURSIVE EarliestSweepShort(_, _, _, _, _, _)
EarliestSweepShort(est, i, n, E, p, M) ==
    IF i > n - 2 THEN est
    ELSE EarliestSweepShort(EarliestEdges(est, i, E, p, M, 1), i + 1, n, E, p, M)

\* utils.py:22, for i in range(1, n)
RECURSIVE EarliestSweep(_, _, _, _, _, _)
EarliestSweep(est, i, n, E, p, M) ==
    IF i > n - 1 THEN est
    ELSE EarliestSweep(EarliestEdges(est, i, E, p, M, 1), i + 1, n, E, p, M)

\* one pass over E in list order, every edge updating its own target
RECURSIVE EarliestListOrder(_, _, _, _, _)
EarliestListOrder(est, E, p, M, k) ==
    IF k > Len(E) THEN est
    ELSE LET j == E[k][1]
             i == E[k][2]
         IN  EarliestListOrder([est EXCEPT ![i] = Max(est[j] + MinDur(p, j, M), est[i])],
                               E, p, M, k + 1)

\* the estimate without the loop over the activities
EarliestOnePass(n, M, E, p) == EarliestListOrder([i \in Acts(n) |-> 0], E, p, M, 1)

\* utils.py:19-27
get_earliest_start_time(n, M, E, p) ==
    EarliestSweep([i \in Acts(n) |-> 0], 1, n, E, p, M)

\* utils.py:50-53, the loop over E for one activity i, from edge k on.
RECURSIVE LatestEdges(_, _, _, _, _, _)
LatestEdges(lst, i, E, p, M, k) ==
    IF k > Len(E) THEN lst
    ELSE LET h == E[k][1]
             j == E[k][2]
         IN  IF h = i
             THEN LatestEdges([lst EXCEPT ![i] = Max(lst[j] + MaxOverModes(p, j, M), lst[i])],
                              i, E, p, M, k + 1)
             ELSE LatestEdges(lst, i, E, p, M, k + 1)

\* utils.py:49, for i in range(n-1, 0, -1)
RECURSIVE LatestSweep(_, _, _, _, _)
LatestSweep(lst, i, E, p, M) ==
    IF i < 1 THEN lst
    ELSE LatestSweep(LatestEdges(lst, i, E, p, M, 1), i - 1, E, p, M)

\* utils.py:46-56; the last step is the list reversal of line 55.
get_latest_start_time(n, M, E, p) ==
    LET raw == LatestSweep([i \in Acts(n) |-> IF i = n - 1 THEN 0 ELSE -1], n - 1, E, p, M)
    IN  [i \in Acts(n) |-> raw[n - 1 - i]]

(***************************************************************************)
(* Time normalisation, the first block of every builder (pulse.py:19-26).  *)
(***************************************************************************)
\* the list of distinct durations without T appended
DistinctDurations(n, M, p, T) == {p[i][m] : i \in Acts(n), m \in Modes(M)}

\* list(set(i for job in p for i in job)) with T appended
unique_processing_times(n, M, p, T) ==
    {p[i][m] : i \in Acts(n), m \in Modes(M)} \cup {T}

\* gcd(*unique_processing_times)
Divisor(n, M, p, T) == GcdSet(unique_processing_times(n, M, p, T))

\* p[i][j] = p[i][j] // divisor, written into the list the caller passed
NormalizedP(n, M, p, d) == [i \in Acts(n) |-> [m \in Modes(M) |-> p[i][m] \div d]]

(***************************************************************************)
(* Indicator families.  a[i] is the set of cells <<m, t>> of activity i    *)
(* whose indicator is 1; V(a, i, m, t) is the value of x / y / z[i, m, t]. *)
(***************************************************************************)
Cells(I) == Modes(I.M) \X Times(I.T)
V(a, i, m, t) == IF <<m, t>> \in a[i] THEN 1 ELSE 0
W(row, m, t) == IF <<m, t>> \in row THEN 1 ELSE 0

\* z[i, m, t-1] if t-1 >= 0 else 0  (step.py:52)
Prev(a, i, m, t) == IF t - 1 >= 0 THEN V(a, i, m, t - 1) ELSE 0
\* z[i, m, max(t - p, 0)] if t - p >= 0 else 0  (step.py:59, step.py:119)
Back(a, i, m, t, d) == IF t - d >= 0 THEN V(a, i, m, Max(t - d, 0)) ELSE 0

\* x[i, m, t] == 0 for t in range(earliest_starting_times[i])
\* (pulse.py:63-64, step.py:68-69, onoff.py:63-64, onoff_pulse.py:68-69)
ZeroTimeSlots(I, est, i, row) ==
    \A m \in Modes(I.M) : \A t \in 0..(est[i] - 1) : <<m, t>> \notin row

(***************************************************************************)
(* Pulse encodings, src/src/pulse.py.                                      *)
(***************************************************************************)
\* x.sum(i, "*", "*") == 1  (pulse.py:46)
PulseSchedule(I, row) ==
    SumR(LAMBDA m : SumR(LAMBDA t : W(row, m, t), 0, I.T - 1), 0, I.M - 1) = 1

\* pulse.py:49-53, one aggregated inequality per edge (i, j)
PulsePrecedence(I, a, i, j) ==
    SumR(LAMBDA m : SumR(LAMBDA t : (t + I.p[i][m]) * V(a, i, m, t), 0, I.T - 1), 0, I.M - 1)
      <= SumR(LAMBDA m : SumR(LAMBDA t : t * V(a, j, m, t), 0, I.T - 1), 0, I.M - 1)

\* pulse.py:108-113, one inequality per edge (i, j) and instant t
PulsePrecedenceDisaggregated(I, a, i, j) ==
    \A t \in Times(I.T) :
        SumR(LAMBDA m : SumR(LAMBDA tau : V(a, i, m, tau), 0, t - I.p[i][m]), 0, I.M - 1)
          >= SumR(LAMBDA m : SumR(LAMBDA tau : V(a, j, m, tau), 0, t), 0, I.M - 1)

\* the resource sum with the window range(max(t - p + 1, 0), t): a start at t
\* itself is not counted
PulseResourceOpenWindow(I, a) ==
    \A t \in Times(I.T) : \A k \in Res(I.R) :
        SumR(LAMBDA i : SumR(LAMBDA m :
                SumR(LAMBDA tau : I.r[i][m][k] * V(a, i, m, tau),
                     Max(t - I.p[i][m] + 1, 0), t - 1),
             0, I.M - 1), 0, I.n - 1) <= I.R[k]

\* pulse.py:55-57
PulseResource(I, a) ==
    \A t \in Times(I.T) : \A k \in Res(I.R) :
        SumR(LAMBDA i : SumR(LAMBDA m :
                SumR(LAMBDA tau : I.r[i][m][k] * V(a, i, m, tau),
                     Max(t - I.p[i][m] + 1, 0), t),
             0, I.M - 1), 0, I.n - 1) <= I.R[k]

\* the linked inequality emitted for m in range(M - 1) only
PulseLinkedLastModeFree(I, a, i, j) ==
    \A m \in 0..(I.M - 2) :
        SumR(LAMBDA t : V(a, i, m, t), 0, I.T - 1) <= SumR(LAMBDA t : V(a, j, m, t), 0, I.T - 1)

\* pulse.py:59-61
PulseLinked(I, a, i, j) ==
    \A m \in Modes(I.M) :
        SumR(LAMBDA t : V(a, i, m, t), 0, I.T - 1) <= SumR(LAMBDA t : V(a, j, m, t), 0, I.T - 1)

\* pulse.py:42
PulseObjective(I, a) ==
    SumR(LAMBDA t : SumR(LAMBDA m : t * V(a, I.n - 1, m, t), 0, I.M - 1), 0, I.T - 1)

(***************************************************************************)
(* Step encodings, src/src/step.py.                                        *)
(***************************************************************************)
\* quicksum(z[i, m, T-1] for m) == 1  (step.py:45)
StepSchedule(I, row) == SumR(LAMBDA m : W(row, m, I.T - 1), 0, I.M - 1) = 1

\* z[i, m, t-1] <= z[i, m, t] for t in range(1, T)  (step.py:48)
StepStartedSameMode(I, row) ==
    \A m \in Modes(I.M) : \A t \in 1..(I.T - 1) : W(row, m, t - 1) <= W(row, m, t)

\* step.py:51-56
StepPrecedence(I, a, i, j) ==
    SumR(LAMBDA t : SumR(LAMBDA m :
            (t + I.p[i][m]) * (V(a, i, m, t) - Prev(a, i, m, t)), 0, I.M - 1), 0, I.T - 1)
      <= SumR(LAMBDA t : SumR(LAMBDA m :
            t * (V(a, j, m, t) - Prev(a, j, m, t)), 0, I.M - 1), 0, I.T - 1)

\* step.py:119-120, for t in range(1, T)
StepPrecedenceDisaggregated(I, a, i, j) ==
    \A t \in 1..(I.T - 1) :
        SumR(LAMBDA m : Back(a, i, m, t, I.p[i][m]), 0, I.M - 1)
          >= SumR(LAMBDA m : V(a, j, m, t), 0, I.M - 1)

\* step.py:58-60
StepResource(I, a) ==
    \A t \in Times(I.T) : \A k \in Res(I.R) :
        SumR(LAMBDA m : SumR(LAMBDA i :
                I.r[i][m][k] * (V(a, i, m, t) - Back(a, i, m, t, I.p[i][m])),
             0, I.n - 1), 0, I.M - 1) <= I.R[k]

\* step.py:64
StepLinked(I, a, i, j) ==
    \A m \in Modes(I.M) : V(a, i, m, I.T - 1) = V(a, j, m, I.T - 1)

\* step.py:43
StepObjective(I, a) ==
    SumR(LAMBDA t : SumR(LAMBDA m :
            t * (V(a, I.n - 1, m, t) - V(a, I.n - 1, m, t - 1)), 0, I.M - 1), 1, I.T - 1)

(***************************************************************************)
(* On-off encoding, src/src/onoff.py.  The coefficients y/p[i][m] are      *)
(* rationals; every inequality is compared after multiplying both sides by *)
(* Den(I, i), the product of the denominators max(p[i][m], 1).             *)
(***************************************************************************)
RECURSIVE ProdR(_, _, _)
ProdR(F(_), lo, hi) == IF lo > hi THEN 1 ELSE F(lo) * ProdR(F, lo + 1, hi)

Den(I, i) == ProdR(LAMBDA m : Max(I.p[i][m], 1), 0, I.M - 1)
\* Den(I, i) / max(p[i][m], 1)
Coef(I, i, m) == Den(I, i) \div Max(I.p[i][m], 1)

\* onoff.py:46 for i in range(1, n-1); onoff.py:48-49 for activities 0 and n-1
OnOffSchedule(I, i, row) ==
    /\ (1 <= i /\ i <= I.n - 2) =>
          SumR(LAMBDA m : SumR(LAMBDA t : Coef(I, i, m) * W(row, m, t), 0, I.T - 1),
               0, I.M - 1) = Den(I, i)
    /\ (i = 0 \/ i = I.n - 1) =>
          SumR(LAMBDA m : SumR(LAMBDA t : W(row, m, t), 0, I.T - 1), 0, I.M - 1) = 1

\* the contiguity constraint emitted for t in range(T-2) only
OnOffStartedSameModeShort(I, i, row) ==
    \A m \in Modes(I.M) : \A t \in 0..(I.T - 3) :
        I.p[i][m] * (W(row, m, t) - W(row, m, t + 1))
          - SumR(LAMBDA tau : W(row, m, tau), Max(t - I.p[i][m] + 1, 0), t - 1) <= 1

\* onoff.py:52, for t in range(T-1)
OnOffStartedSameMode(I, i, row) ==
    \A m \in Modes(I.M) : \A t \in 0..(I.T - 2) :
        I.p[i][m] * (W(row, m, t) - W(row, m, t + 1))
          - SumR(LAMBDA tau : W(row, m, tau), Max(t - I.p[i][m] + 1, 0), t - 1) <= 1

\* onoff.py:55
OnOffPrecedence(I, a, i, j) ==
    \A t \in Times(I.T) :
        SumR(LAMBDA m : SumR(LAMBDA tau : Coef(I, i, m) * V(a, i, m, tau),
                             0, t - Min(I.p[i][m], 1)), 0, I.M - 1)
          >= Den(I, i) * SumR(LAMBDA m : V(a, j, m, t), 0, I.M - 1)

\* onoff.py:58
OnOffResource(I, a) ==
    \A t \in Times(I.T) : \A k \in Res(I.R) :
        SumR(LAMBDA i : SumR(LAMBDA m : I.r[i][m][k] * V(a, i, m, t), 0, I.M - 1),
             0, I.n - 1) <= I.R[k]

\* onoff.py:61, both sides multiplied by max(p[i][m], 1) * max(p[j][m], 1)
OnOffLinked(I, a, i, j) ==
    \A m \in Modes(I.M) :
        SumR(LAMBDA t : V(a, i, m, t), 0, I.T - 1) * Max(I.p[j][m], 1)
          = SumR(LAMBDA t : V(a, j, m, t), 0, I.T - 1) * Max(I.p[i][m], 1)

\* onoff.py:42
OnOffObjective(I, a) ==
    SumR(LAMBDA t : SumR(LAMBDA m : t * V(a, I.n - 1, m, t), 0, I.M - 1), 1, I.T - 1)

(***************************************************************************)
(* On-off-pulse encodings, src/src/onoff_pulse.py.  x is the pulse family; *)
(* the on-off family y is fixed by the equalities of line 50, so a 0/1     *)
(* value of y exists exactly when each window sum is 0 or 1.               *)
(***************************************************************************)
\* quicksum(x[i, m, tau] for tau in range(max(t - p[i][m] + 1, 0), t+1))
WindowSum(I, i, row, m, t) ==
    SumR(LAMBDA tau : W(row, m, tau), Max(t - I.p[i][m] + 1, 0), t)

\* onoff_pulse.py:50
ConnectPulseOnoff(I, i, row) ==
    \A m \in Modes(I.M) : \A t \in Times(I.T) : WindowSum(I, i, row, m, t) \in {0, 1}

\* the y row of activity i that line 50 fixes
OnOffOfPulse(I, i, row) == {c \in Cells(I) : WindowSum(I, i, row, c[1], c[2]) = 1}

\* onoff_pulse.py:51
ConnectProcessingTime(I, i, row) ==
    \A m \in Modes(I.M) :
        SumR(LAMBDA t : WindowSum(I, i, row, m, t), 0, I.T - 1)
          = SumR(LAMBDA t : I.p[i][m] * W(row, m, t), 0, I.T - 1)

(***************************************************************************)
(* Continuous-time encoding, src/src/continuous.py.  x[i] is the set of    *)
(* modes m with x[i, m] = 1 and S[i] the start time.  The start times are  *)
(* searched over the integers 0..T+MaxSlack: for fixed 0/1 values every    *)
(* constraint on S is a difference constraint with integer constants, so   *)
(* the least feasible S is integral.  The sequencing indicators y, z and   *)
(* u occur only for pairs of VP and, for a pair (a, b), only in            *)
(* constraints of the target b; they are quantified per target.            *)
(***************************************************************************)
XV(x, i, m) == IF m \in x[i] THEN 1 ELSE 0

\* quicksum(p[i][m] * x[i, m] for m in range(M))
ChosenDur(I, x, i) == SumR(LAMBDA m : I.p[i][m] * XV(x, i, m), 0, I.M - 1)
\* quicksum(r[i][m][k] * x[i, m] for m in range(M))
ChosenReq(I, x, i, k) == SumR(LAMBDA m : I.r[i][m][k] * XV(x, i, m), 0, I.M - 1)
\* max(r[j][m][k] for m in range(M))
MaxReqOf(I, j, k) == -SetMin({-I.r[j][m][k] : m \in Modes(I.M)})

\* continuous.py:40
ContEarliest(I, est, S) == \A i \in Acts(I.n) : S[i] >= est[i]

\* continuous.py:64
ContExecute(I, x) ==
    \A i \in Acts(I.n) : SumR(LAMBDA m : XV(x, i, m), 0, I.M - 1) = 1

\* continuous.py:58
ContPrecedence(I, S, x, i, j) == S[i] + ChosenDur(I, x, i) <= S[j]

\* continuous.py:71
ContLinked(I, x, i, j) == \A m \in Modes(I.M) : XV(x, i, m) = XV(x, j, m)

\* continuous.py:55, pair (i, j) of VP with y[i, j] = yv
ConnectStartCompletion(I, S, x, i, j, yv) ==
    S[i] + ChosenDur(I, x, i) <= S[j] + I.T * (1 - yv)

\* continuous.py:61, pair (i, j) of VP with z[i, j] = zv
ConnectStartStart(I, S, i, j, zv) == I.T * zv >= S[j] - S[i] + 1

\* continuous.py:67, pair (j, i) of VP with y[j, i] = yv, z[j, i] = zv, u[j, i, k] = uv
ContResource(I, x, j, k, yv, zv, uv) ==
    ChosenReq(I, x, j, k) - MaxReqOf(I, j, k) * (1 - zv + yv) <= uv

\* continuous.py:68, activity i, with aux[j] the values of y, z, u of the pair (j, i)
ContResource2(I, x, VPs, i, aux) ==
    \A k \in Res(I.R) :
        ChosenReq(I, x, i, k)
          + SumSeq(LAMBDA e : IF e[2] = i THEN aux[e[1]].u[k] ELSE 0, VPs, 1) <= I.R[k]

\* the activities j with (j, i) in VP
Partners(VPs, i) == {VPs[k][1] : k \in {h \in DOMAIN VPs : VPs[h][2] = i}}

AuxValues(I) == [y : {0, 1}, z : {0, 1}, u : [Res(I.R) -> {0, 1}]]

\* values of y[j, i], z[j, i], u[j, i, k] exist that satisfy all constraints of target i
TargetOK(I, S, x, VPs, i) ==
    \E aux \in [Partners(VPs, i) -> AuxValues(I)] :
        /\ \A j \in Partners(VPs, i) :
              /\ ConnectStartCompletion(I, S, x, j, i, aux[j].y)
              /\ ConnectStartStart(I, S, j, i, aux[j].z)
              /\ \A k \in Res(I.R) :
                    ContResource(I, x, j, k, aux[j].y, aux[j].z, aux[j].u[k])
        /\ ContResource2(I, x, VPs, i, aux)

\* continuous.py:51
ContObjective(I, S) == S[I.n - 1]

(***************************************************************************)
(* The constraint systems the builders emit.  For every discrete builder   *)
(* the constraints that mention one activity (..._row) are separated from  *)
(* those that join activities (..._joint); an assignment satisfies the     *)
(* model when every row and the joint part hold.                           *)
(***************************************************************************)
\* every edge of E / every pair of L satisfies C
AllPairs(C(_, _), s) == \A k \in DOMAIN s : C(s[k][1], s[k][2])

\* pulse.py:46, 63-64
pulse_model_row(I, est, i, row) ==
    PulseSchedule(I, row) /\ ZeroTimeSlots(I, est, i, row)

\* pulse.py:49-61
pulse_model_joint(I, a) ==
    /\ AllPairs(LAMBDA i, j : PulsePrecedence(I, a, i, j), I.E)
    /\ PulseResource(I, a)
    /\ AllPairs(LAMBDA i, j : PulseLinked(I, a, i, j), I.L)

\* pulse.py:108-121
pulse_model_disaggregated_joint(I, a) ==
    /\ AllPairs(LAMBDA i, j : PulsePrecedenceDisaggregated(I, a, i, j), I.E)
    /\ PulseResource(I, a)
    /\ AllPairs(LAMBDA i, j : PulseLinked(I, a, i, j), I.L)

\* step.py:45-48, 68-69
step_model_row(I, est, i, row) ==
    StepSchedule(I, row) /\ StepStartedSameMode(I, row) /\ ZeroTimeSlots(I, est, i, row)

\* step.py:51-64
step_model_joint(I, a) ==
    /\ AllPairs(LAMBDA i, j : StepPrecedence(I, a, i, j), I.E)
    /\ StepResource(I, a)
    /\ AllPairs(LAMBDA i, j : StepLinked(I, a, i, j), I.L)

\* step.py:119-132
step_model_disaggregated_joint(I, a) ==
    /\ AllPairs(LAMBDA i, j : StepPrecedenceDisaggregated(I, a, i, j), I.E)
    /\ StepResource(I, a)
    /\ AllPairs(LAMBDA i, j : StepLinked(I, a, i, j), I.L)

\* onoff.py:46-52, 63-64
onoff_model_row(I, est, i, row) ==
    OnOffSchedule(I, i, row) /\ OnOffStartedSameMode(I, i, row) /\ ZeroTimeSlots(I, est, i, row)

\* onoff.py:55-61
onoff_model_joint(I, a) ==
    /\ AllPairs(LAMBDA i, j : OnOffPrecedence(I, a, i, j), I.E)
    /\ OnOffResource(I, a)
    /\ AllPairs(LAMBDA i, j : OnOffLinked(I, a, i, j), I.L)

\* onoff_pulse.py:47-51, 68-69
onoff_pulse_model_row(I, est, i, row) ==
    /\ PulseSchedule(I, row)
    /\ ZeroTimeSlots(I, est, i, row)
    /\ ConnectPulseOnoff(I, i, row)
    /\ ConnectProcessingTime(I, i, row)

Discrete == {"pulse_model", "pulse_model_disaggregated", "step_model",
             "step_model_disaggregated", "onoff_model", "onoff_pulse_model",
             "onoff_pulse_model_disaggregated"}
Builders == Discrete \cup {"continuous_model"}

RowOK(name, I, est, i, row) ==
    CASE name \in {"pulse_model", "pulse_model_disaggregated"} -> pulse_model_row(I, est, i, row)
      [] name \in {"step_model", "step_model_disaggregated"} -> step_model_row(I, est, i, row)
      [] name = "onoff_model" -> onoff_model_row(I, est, i, row)
      [] name \in {"onoff_pulse_model", "onoff_pulse_model_disaggregated"} ->
            onoff_pulse_model_row(I, est, i, row)

\* onoff_pulse.py:53-66 repeats pulse.py:49-61, onoff_pulse.py:119-132 repeats pulse.py:108-121
JointOK(name, I, a) ==
    CASE name \in {"pulse_model", "onoff_pulse_model"} -> pulse_model_joint(I, a)
      [] name \in {"pulse_model_disaggregated", "onoff_pulse_model_disaggregated"} ->
            pulse_model_disaggregated_joint(I, a)
      [] name = "step_model" -> step_model_joint(I, a)
      [] name = "step_model_disaggregated" -> step_model_disaggregated_joint(I, a)
      [] name = "onoff_model" -> onoff_model_joint(I, a)

\* the functions f on 0..k with f[i] \in RO[i]
RECURSIVE RowProduct(_, _)
RowProduct(RO, k) ==
    IF k < 0 THEN {<<>>}
    ELSE {f @@ (k :> row) : f \in RowProduct(RO, k - 1), row \in RO[k]}

NoRows(I) == [i \in Acts(I.n) |-> {}]

\* An assignment of a discrete model: v is the family the builder declares
\* first (x, z or y), y the on-off family of the on-off-pulse builders.
IndicatorSol(name, I, a) ==
    [kind |-> "indicator",
     v |-> a,
     y |-> IF name \in {"onoff_pulse_model", "onoff_pulse_model_disaggregated"}
           THEN [i \in Acts(I.n) |-> OnOffOfPulse(I, i, a[i])]
           ELSE NoRows(I)]

\* all 0/1 assignments that satisfy every constraint of the discrete model
DiscreteFeasible(name, I, est) ==
    LET RO == [i \in Acts(I.n) |-> {row \in SUBSET Cells(I) : RowOK(name, I, est, i, row)}]
    IN  {IndicatorSol(name, I, a) : a \in {b \in RowProduct(RO, I.n - 1) : JointOK(name, I, b)}}

\* continuous.py:40-71
continuous_model_ok(I, est, VPs, S, x) ==
    /\ ContEarliest(I, est, S)
    /\ AllPairs(LAMBDA i, j : ContPrecedence(I, S, x, i, j), I.E)
    /\ \A i \in Acts(I.n) : TargetOK(I, S, x, VPs, i)

\* all assignments of the continuous model, projected on S and x
ContinuousFeasible(I, est, VPs) ==
    LET XS == {x \in [Acts(I.n) -> SUBSET Modes(I.M)] :
                  /\ ContExecute(I, x)
                  /\ AllPairs(LAMBDA i, j : ContLinked(I, x, i, j), I.L)}
        SS == [Acts(I.n) -> 0..(I.T + MaxSlack)]
    IN  {[kind |-> "continuous", S |-> q[1], x |-> q[2]] :
            q \in {w \in SS \X XS : continuous_model_ok(I, est, VPs, w[1], w[2])}}

Feasible(name, I, est, VPs) ==
    IF name = "continuous_model" THEN ContinuousFeasible(I, est, VPs)
    ELSE DiscreteFeasible(name, I, est)

\* the objective of the model, evaluated on an assignment
Objective(name, I, s) ==
    CASE name \in {"pulse_model", "pulse_model_disaggregated", "onoff_pulse_model",
                   "onoff_pulse_model_disaggregated"} -> PulseObjective(I, s.v)
      [] name \in {"step_model", "step_model_disaggregated"} -> StepObjective(I, s.v)
      [] name = "onoff_model" -> OnOffObjective(I, s.v)
      [] name = "continuous_model" -> ContObjective(I, s.S)

(***************************************************************************)
(* Instances.  Activity 0 is the dummy source and activity n-1 the dummy   *)
(* sink (zero duration, zero requirement); there are two modes and one     *)
(* resource of capacity 1.                                                 *)
(***************************************************************************)
TwoModes == 0..1
OneResource == {0}
ZeroRow == [m \in TwoModes |-> 0]
Capacity == [k \in OneResource |-> 1]

Chain3 == << <<0, 1>>, <<1, 2>> >>
Fork3 == << <<0, 1>>, <<0, 2>> >>
Chain4 == << <<0, 1>>, <<1, 2>>, <<2, 3>> >>
Diamond4 == << <<0, 1>>, <<0, 2>>, <<1, 3>>, <<2, 3>> >>

\* an instance with the real activities 1..n-2; pm, rm give their rows
MkInstance(n, T, E, L, pm, rm) ==
    [n |-> n, T |-> T, M |-> 2, R |-> Capacity, E |-> E, L |-> L,
     p |-> [i \in Acts(n) |-> IF i \in DOMAIN pm THEN pm[i] ELSE ZeroRow],
     r |-> [i \in Acts(n) |-> [m \in TwoModes |-> [k \in OneResource |->
                IF i \in DOMAIN rm THEN rm[i][m] ELSE 0]]]]

Instances3 ==
    {MkInstance(3, T, E, L, 1 :> p1, 1 :> r1) :
        T \in (MaxT - 1)..MaxT, E \in {Chain3, Fork3}, L \in {<<>>, << <<0, 1>> >>},
        p1 \in [TwoModes -> 0..MaxDur], r1 \in [TwoModes -> {0, MaxReq}]}

Instances4 ==
    {MkInstance(4, MaxT, Chain4, << <<1, 2>> >>, (1 :> p1) @@ (2 :> p2),
                (1 :> (0 :> MaxReq @@ 1 :> 0)) @@ (2 :> ZeroRow)) :
        p1 \in [TwoModes -> {0, MaxDur}], p2 \in [TwoModes -> {0, MaxDur}]}
    \cup
    {MkInstance(4, MaxT, Diamond4, <<>>, (1 :> (0 :> 1 @@ 1 :> MaxDur)) @@ (2 :> (0 :> 1 @@ 1 :> MaxDur)),
                (1 :> (0 :> 1 @@ 1 :> q)) @@ (2 :> (0 :> 1 @@ 1 :> q))) :
        q \in {0, 1}}

\* the chain whose durations and horizon are all zero
ZeroInstances ==
    {MkInstance(3, 0, Chain3, <<>>, 1 :> ZeroRow, 1 :> ZeroRow)}

\* the chain 0 -> 1 -> 2 with one mode, p = [[0],[3],[0]], R = [1] and
\* r[1][0][0] = 1, for the horizons 4..MaxChainT
ChainInstance(T) ==
    [n |-> 3, T |-> T, M |-> 1, R |-> Capacity, E |-> Chain3, L |-> <<>>,
     p |-> [i \in Acts(3) |-> [m \in {0} |-> IF i = 1 THEN 3 ELSE 0]],
     r |-> [i \in Acts(3) |-> [m \in {0} |-> [k \in OneResource |-> IF i = 1 THEN 1 ELSE 0]]]]

ChainInstances == {ChainInstance(T) : T \in 4..MaxChainT}

\* the diamond 0 -> {1, 2} -> 3 on a resource of capacity MaxReq + 1:
\* activity 1 takes MaxReq units and activity 2 one unit, both for two
\* instants in either mode, so that the two fit side by side
WideCapacity == [k \in OneResource |-> MaxReq + 1]
WideInstances ==
    {[MkInstance(4, MaxT - 1, Diamond4, <<>>,
                 (1 :> (0 :> 2 @@ 1 :> 2)) @@ (2 :> (0 :> 2 @@ 1 :> 2)),
                 (1 :> (0 :> MaxReq @@ 1 :> MaxReq)) @@ (2 :> (0 :> 1 @@ 1 :> 1)))
        EXCEPT !.R = WideCapacity]}

Instances == Instances3 \cup Instances4 \cup ChainInstances \cup WideInstances

\* the same chain with the horizon 2, shorter than its critical path 3
ShortChainInstances == {ChainInstance(2)}

\* test.py:61-70, the list of (model_name, model_init) the harness runs
AllModels ==
    << [model_name |-> "PDT", model_init |-> "pulse_model"],
       [model_name |-> "PDDT", model_init |-> "pulse_model_disaggregated"],
       [model_name |-> "SDT", model_init |-> "step_model"],
       [model_name |-> "SDDT", model_init |-> "step_model_disaggregated"],
       [model_name |-> "OODDT", model_init |-> "onoff_model"],
       [model_name |-> "OOPDT", model_init |-> "onoff_pulse_model"],
       [model_name |-> "OOPDDT", model_init |-> "onoff_pulse_model_disaggregated"],
       [model_name |-> "MSEQCT", model_init |-> "continuous_model"] >>

\* test_models called with a list of one encoding
OneModelLists == {<<AllModels[k]>> : k \in DOMAIN AllModels}

NoModel == [name |-> "none", T |-> 0, feasible |-> {}, NumVars |-> 0, NumConstrs |-> 0,
            MIPGap |-> 0, Runtime |-> 0]
NoSol == [kind |-> "none"]

\* the comprehension without the test "[j,i] not in E"
RECURSIVE NonOrderedOneDirection(_, _, _)
NonOrderedOneDirection(n, E, c) ==
    IF c >= n * n THEN <<>>
    ELSE LET i == c \div n
             j == c % n
             in(e) == \E k \in DOMAIN E : E[k] = e
         IN  IF ~in(<<i, j>>) /\ i # j
             THEN <<<<i, j>>>> \o NonOrderedOneDirection(n, E, c + 1)
             ELSE NonOrderedOneDirection(n, E, c + 1)

\* test.py:18, the pairs in the order of the two nested loops
RECURSIVE NonOrdered(_, _, _)
NonOrdered(n, E, c) ==
    IF c >= n * n THEN <<>>
    ELSE LET i == c \div n
             j == c % n
             in(e) == \E k \in DOMAIN E : E[k] = e
         IN  IF ~in(<<i, j>>) /\ ~in(<<j, i>>) /\ i # j
             THEN <<<<i, j>>>> \o NonOrdered(n, E, c + 1)
             ELSE NonOrdered(n, E, c + 1)

(***************************************************************************)
(* The sizes a built model reports: one variable per key handed to         *)
(* addVars, one constraint per element of a generator handed to            *)
(* addConstrs (and one per addConstr).                                     *)
(***************************************************************************)
\* pulse.py:39,99  step.py:36,40,104,108  onoff.py:39  onoff_pulse.py:39-40,
\* 104-105  continuous.py:39,42,44,46,48
NumVars(name, I) ==
    LET n == I.n
        cells == I.n * I.M * I.T
        K == Cardinality(Res(I.R))
    IN  CASE name \in {"pulse_model", "pulse_model_disaggregated", "onoff_model"} -> cells
          [] name \in {"step_model", "step_model_disaggregated"} -> I.T + cells
          [] name \in {"onoff_pulse_model", "onoff_pulse_model_disaggregated"} -> 2 * cells
          [] name = "continuous_model" -> n + n * I.M + 2 * n * n + n * n * K

\* pulse.py:46-64,106-124  step.py:46-69,114-138  onoff.py:46-64
\* onoff_pulse.py:47-69,112-134  continuous.py:40-71
NumConstrs(name, I, est, VPs) ==
    LET n == I.n
        M == I.M
        T == I.T
        K == Cardinality(Res(I.R))
        e == Len(I.E)
        l == Len(I.L)
        v == Len(VPs)
        zero == M * SumR(LAMBDA i : est[i], 0, n - 1)
        steps == Max(T - 1, 0)
        common == T * K + l * M + zero
    IN  CASE name = "pulse_model" -> n + e + common
          [] name = "pulse_model_disaggregated" -> n + e * T + common
          [] name = "step_model" -> n + n * M * steps + e + common
          [] name = "step_model_disaggregated" -> n + n * M * steps + e * steps + common
          [] name = "onoff_model" -> Max(n - 2, 0) + 2 + n * M * steps + e * T + common
          [] name = "onoff_pulse_model" -> n + n * T * M + n * M + e + common
          [] name = "onoff_pulse_model_disaggregated" -> n + n * T * M + n * M + e * T + common
          [] name = "continuous_model" -> n + v + e + v + n + v * K + n * K + l * M

(***************************************************************************)
(* test_models, src/src/test.py:13-37, and the builders it calls.          *)
(***************************************************************************)
Init ==
    /\ \/ input_base \in Instances /\ models = AllModels
       \/ input_base \in ZeroInstances \cup ShortChainInstances /\ models \in OneModelLists
    /\ input = input_base
    /\ VP = <<>>
    /\ pc = "loop"
    /\ model = NoModel
    /\ divisor = 1
    /\ earliest = <<>>
    /\ latest = <<>>
    /\ sol = NoSol
    /\ status = "LOADED"
    /\ objVal = 0
    /\ results = <<>>

\* the loop without the deep copy after the first iteration: the durations
\* the previous builder rescaled are handed to the next one
DeepcopyOnce ==
    /\ pc = "loop"
    /\ models # <<>>
    /\ input' = IF results = <<>> THEN input_base ELSE [input_base EXCEPT !.p = input.p]
    /\ VP' = NonOrdered(input_base.n, input_base.E, 0)
    /\ pc' = "copied"
    /\ UNCHANGED <<input_base, models, model, divisor, earliest, latest, sol, status,
                   objVal, results>>

\* test.py:17-18
Deepcopy ==
    /\ pc = "loop"
    /\ models # <<>>
    /\ input' = input_base
    /\ VP' = NonOrdered(input_base.n, input_base.E, 0)
    /\ pc' = "copied"
    /\ UNCHANGED <<input_base, models, model, divisor, earliest, latest, sol, status,
                   objVal, results>>

\* The body every builder shares (pulse.py:19-35): normalise in place,
\* estimate the bounds, emit the model.  A discrete builder indexes its
\* indicator dict with every t < earliest_starting_times[i] (pulse.py:64),
\* which raises KeyError for t >= T.
Build(name) ==
    LET n == input.n
        M == input.M
        d == Divisor(n, M, input.p, input.T)
    IN  IF d = 0
        THEN /\ pc' = "failed"
             /\ UNCHANGED <<input, model, divisor, earliest, latest>>
        ELSE LET p2 == NormalizedP(n, M, input.p, d)
                 T2 == input.T \div d
                 est == get_earliest_start_time(n, M, input.E, p2)
                 lst == get_latest_start_time(n, M, input.E, p2)
                 I == [input EXCEPT !.p = p2, !.T = T2]
             IN  /\ input' = [input EXCEPT !.p = p2]
                 /\ earliest' = est
                 /\ latest' = lst
                 /\ IF name \in Discrete /\ \E i \in Acts(n) : est[i] > T2
                    THEN /\ pc' = "failed"
                         /\ UNCHANGED <<model, divisor>>
                    ELSE /\ pc' = "built"
                         /\ model' = [name |-> name, T |-> T2,
                                      feasible |-> Feasible(name, I, est, VP),
                                      NumVars |-> NumVars(name, I),
                                      NumConstrs |-> NumConstrs(name, I, est, VP),
                                      MIPGap |-> 0, Runtime |-> 0]
                         /\ divisor' = d

\* test.py:19: model_init is the builder that the head of the list names
Called(name) == pc = "copied" /\ Head(models).model_init = name

\* what a call leaves behind besides the builder's own effect
Returned ==
    /\ sol' = NoSol
    /\ status' = "LOADED"
    /\ UNCHANGED <<input_base, VP, models, objVal, results>>

\* pulse.py:8-66
pulse_model ==
    /\ Called("pulse_model")
    /\ Build("pulse_model")
    /\ Returned

\* pulse.py:68-126
pulse_model_disaggregated ==
    /\ Called("pulse_model_disaggregated")
    /\ Build("pulse_model_disaggregated")
    /\ Returned

\* step.py:8-74
step_model ==
    /\ Called("step_model")
    /\ Build("step_model")
    /\ Returned

\* step.py:76-143
step_model_disaggregated ==
    /\ Called("step_model_disaggregated")
    /\ Build("step_model_disaggregated")
    /\ Returned

\* onoff.py:8-66
onoff_model ==
    /\ Called("onoff_model")
    /\ Build("onoff_model")
    /\ Returned

\* onoff_pulse.py:8-71
onoff_pulse_model ==
    /\ Called("onoff_pulse_model")
    /\ Build("onoff_pulse_model")
    /\ Returned

\* onoff_pulse.py:73-136
onoff_pulse_model_disaggregated ==
    /\ Called("onoff_pulse_model_disaggregated")
    /\ Build("onoff_pulse_model_disaggregated")
    /\ Returned

\* continuous.py:8-75
continuous_model ==
    /\ Called("continuous_model")
    /\ Build("continuous_model")
    /\ Returned

\* the normalised instance the model of the present iteration was built on
Norm == [input EXCEPT !.T = model.T]

(***************************************************************************)
(* The solver (external).  During the search it holds an incumbent, which  *)
(* may be any assignment that satisfies the model; optimize() returns with *)
(* the least objective value, or reports the model infeasible.             *)
(***************************************************************************)
FindIncumbent ==
    /\ pc = "built"
    /\ pc' = "incumbent"
    /\ sol' \in model.feasible
    /\ UNCHANGED <<input_base, input, VP, models, model, divisor, earliest, latest,
                   status, objVal, results>>

Best(name, I, F) == SetMin({Objective(name, I, s) : s \in F})

\* test.py:21.  The attributes the solver sets on the model: Runtime is
\* counted in assignments examined, MIPGap is 0 once the search has closed
\* and stays 1 (no incumbent to compare with the bound) on an infeasible model.
optimize ==
    /\ pc \in {"built", "incumbent"}
    /\ pc' = "solved"
    /\ sol' = NoSol
    /\ IF model.feasible = {}
       THEN /\ status' = "INFEASIBLE"
            /\ objVal' = 0
            /\ model' = [model EXCEPT !.MIPGap = 1, !.Runtime = 1]
       ELSE /\ status' = "OPTIMAL"
            /\ objVal' = Best(model.name, Norm, model.feasible)
            /\ model' = [model EXCEPT !.MIPGap = 0,
                                      !.Runtime = 1 + Cardinality(model.feasible)]
    /\ UNCHANGED <<input_base, input, VP, models, divisor, earliest, latest, results>>

\* the record with the solver's objective value as it is, not rescaled
RecordUnscaled ==
    /\ pc = "solved"
    /\ results' = Append(results,
            [model_name |-> Head(models).model_name,
             status |-> status,
             objective |-> IF status # "INFEASIBLE" THEN objVal ELSE -1,
             gap |-> model.MIPGap,
             runtime |-> model.Runtime,
             variables |-> model.NumVars,
             constraints |-> model.NumConstrs])
    /\ models' = Tail(models)
    /\ pc' = IF Tail(models) = <<>> THEN "done" ELSE "loop"
    /\ sol' = NoSol
    /\ UNCHANGED <<input_base, input, VP, model, divisor, earliest, latest, status, objVal>>

\* test.py:22-30 and the loop step of line 14
Record ==
    /\ pc = "solved"
    /\ results' = Append(results,
            [model_name |-> Head(models).model_name,
             status |-> status,
             objective |-> IF status # "INFEASIBLE" THEN objVal * divisor ELSE -1,
             gap |-> model.MIPGap,
             runtime |-> model.Runtime,
             variables |-> model.NumVars,
             constraints |-> model.NumConstrs])
    /\ models' = Tail(models)
    /\ pc' = IF Tail(models) = <<>> THEN "done" ELSE "loop"
    /\ sol' = NoSol
    /\ UNCHANGED <<input_base, input, VP, model, divisor, earliest, latest, status, objVal>>

Next ==
    \/ Deepcopy
    \/ pulse_model
    \/ pulse_model_disaggregated
    \/ step_model
    \/ step_model_disaggregated
    \/ onoff_model
    \/ onoff_pulse_model
    \/ onoff_pulse_model_disaggregated
    \/ continuous_model
    \/ FindIncumbent
    \/ optimize
    \/ Record

Spec == Init /\ [][Next]_vars

(***************************************************************************)
(* The same harness on instances whose edge list has a cycle: activities   *)
(* 1 and 2 precede each other.                                             *)
(***************************************************************************)
Cyclic4 == << <<0, 1>>, <<1, 2>>, <<2, 1>>, <<2, 3>> >>

CyclicInstances ==
    {MkInstance(4, MaxT - 1, Cyclic4, <<>>, (1 :> p1) @@ (2 :> p2), (1 :> ZeroRow) @@ (2 :> ZeroRow)) :
        p1 \in [TwoModes -> {0, 1}], p2 \in [TwoModes -> {0, 1}]}

InitCyclic ==
    /\ input_base \in CyclicInstances
    /\ models = AllModels
    /\ input = input_base
    /\ VP = <<>>
    /\ pc = "loop"
    /\ model = NoModel
    /\ divisor = 1
    /\ earliest = <<>>
    /\ latest = <<>>
    /\ sol = NoSol
    /\ status = "LOADED"
    /\ objVal = 0
    /\ results = <<>>

SpecCyclic == InitCyclic /\ [][Next]_vars

(***************************************************************************)
(* The bound estimator on its own: get_earliest_start_time and             *)
(* get_latest_start_time applied to arbitrary edge lists over three        *)
(* activities, every activity with two modes of duration 0..MaxDur.        *)
(***************************************************************************)
\* the edge lists without repetition of at most k edges over the pairs P
RECURSIVE EdgeLists(_, _)
EdgeLists(P, k) ==
    IF k = 0 THEN {<<>>}
    ELSE LET S == EdgeLists(P, k - 1)
         IN  S \cup {Append(s, e) : s \in {q \in S : Len(q) = k - 1}, e \in P}

SortedRows == {row \in [TwoModes -> 0..MaxDur] : row[0] <= row[1]}

NoRepeat(s) == \A a, b \in DOMAIN s : a # b => s[a] # s[b]

BoundInstances ==
    {[n |-> 3, T |-> MaxT, M |-> 2, R |-> Capacity, E |-> E, L |-> <<>>, p |-> p,
      r |-> [i \in Acts(3) |-> [m \in TwoModes |-> [k \in OneResource |-> 0]]]] :
        E \in {s \in EdgeLists(Acts(3) \X Acts(3), MaxEdges) : NoRepeat(s)},
        p \in [Acts(3) -> SortedRows]}

InitBounds ==
    /\ input_base \in BoundInstances
    /\ input = input_base
    /\ VP = <<>>
    /\ models = <<>>
    /\ pc = "caller"
    /\ model = NoModel
    /\ divisor = 1
    /\ earliest = <<>>
    /\ latest = <<>>
    /\ sol = NoSol
    /\ status = "LOADED"
    /\ objVal = 0
    /\ results = <<>>

\* the call of pulse.py:29, on the instance as given
CallEarliest ==
    /\ pc = "caller"
    /\ earliest' = get_earliest_start_time(input.n, input.M, input.E, input.p)
    /\ pc' = "earliest"
    /\ UNCHANGED <<input_base, input, VP, models, model, divisor, latest, sol, status,
                   objVal, results>>

\* the call of pulse.py:30
CallLatest ==
    /\ pc = "earliest"
    /\ latest' = get_latest_start_time(input.n, input.M, input.E, input.p)
    /\ pc' = "latest"
    /\ UNCHANGED <<input_base, input, VP, models, model, divisor, earliest, sol, status,
                   objVal, results>>

NextBounds == CallEarliest \/ CallLatest

SpecBounds == InitBounds /\ [][NextBounds]_vars

\* the pairs (i, j) with a path of at least one edge from i to j
RECURSIVE Reach(_, _, _)
Reach(n, E, k) ==
    IF k = 0 THEN {E[h] : h \in DOMAIN E}
    ELSE LET Q == Reach(n, E, k - 1)
         IN  Q \cup {<<w[1][1], w[2][2]>> : w \in {v \in Q \X Q : v[1][2] = v[2][1]}}

Acyclic(n, E) == \A i \in Acts(n) : <<i, i>> \notin Reach(n, E, n)

(***************************************************************************)
(* Claims about the bound estimator (SpecBounds).                          *)
(***************************************************************************)
\* C1: for every edge (i, j) of E, whatever the edge list, the result of
\* get_earliest_start_time has earliestStart[i] + min over modes of p[i]
\* <= earliestStart[j].
C1_EarliestRespectsEveryEdge ==
    pc \in {"earliest", "latest"} =>
        \A k \in DOMAIN input.E :
            earliest[input.E[k][1]] + MinDur(input.p, input.E[k][1], input.M)
                <= earliest[input.E[k][2]]

\* C2: when E is acyclic and every duration is non-negative, every activity
\* i has earliestStart[i] <= latestStart[i].
C2_EarliestAtMostLatest ==
    (pc = "latest" /\ Acyclic(input.n, input.E)) =>
        \A i \in Acts(input.n) : earliest[i] <= latest[i]

(***************************************************************************)
(* Reading a schedule off an assignment.  The claims below are stated on   *)
(* the states where the solver holds an incumbent, that is, on every       *)
(* assignment that satisfies the constraints of the model just built.      *)
(***************************************************************************)
Holding == pc = "incumbent"
HoldingDiscrete == Holding /\ model.name \in Discrete

\* the modes of activity i with a non-zero indicator (x, y or z)
ChosenModes(s, i) ==
    IF s.kind = "continuous" THEN s.x[i]
    ELSE {c[1] : c \in s.v[i] \cup s.y[i]}

\* the instants t at which the first family of the model has v[i, m, t] = 1
Instants(s, i, m) == {c[2] : c \in {d \in s.v[i] : d[1] = m}}

\* the decoded start of activity i in mode m: the pulse instant, the first
\* instant of the step, the first active instant, or S[i]
StartOf(s, i, m) ==
    IF s.kind = "continuous" THEN s.S[i] ELSE SetMin(Instants(s, i, m))

\* the modes in which activity i has a decoded start
StartedModes(s, i) ==
    IF s.kind = "continuous" THEN s.x[i] ELSE {c[1] : c \in s.v[i]}

\* activity i runs in mode m at instant t: t lies in [start, start + p[i][m])
Running(I, s, i, m, t) ==
    /\ m \in StartedModes(s, i)
    /\ StartOf(s, i, m) <= t
    /\ t < StartOf(s, i, m) + I.p[i][m]

\* the requirement of resource k by the activities running at instant t
Usage(I, s, t, k) ==
    SumR(LAMBDA i : SumR(LAMBDA m : IF Running(I, s, i, m, t) THEN I.r[i][m][k] ELSE 0,
                         0, I.M - 1), 0, I.n - 1)

\* the instants of mode m form one block of exactly len instants
Block(s, i, m, len) ==
    LET ts == Instants(s, i, m)
    IN  /\ Cardinality(ts) = len
        /\ \A t \in ts : \A u \in ts : \A w \in t..u : w \in ts

(***************************************************************************)
(* Claims about the encodings (Spec).                                      *)
(***************************************************************************)
\* C3: in every encoding, every assignment that satisfies the emitted
\* constraints decodes to starts and modes with s[i] + p[i][m[i]] <= s[j] for
\* every edge (i, j) of E, instant 0 and zero-duration modes included.
C3_PrecedenceEnforced ==
    Holding =>
        \A k \in DOMAIN input.E :
            LET i == input.E[k][1]
                j == input.E[k][2]
            IN  \A mi \in StartedModes(sol, i) : \A mj \in StartedModes(sol, j) :
                    StartOf(sol, i, mi) + Norm.p[i][mi] <= StartOf(sol, j, mj)

\* C4 as stated: in every encoding, every satisfying assignment has exactly
\* one mode with a non-zero indicator per activity, and in the on-off
\* encoding that mode is active on one gap-free block of exactly p[i][m]
\* instants.
C4_ExactlyOneModeActiveForP ==
    Holding =>
        \A i \in Acts(input.n) :
            /\ Cardinality(ChosenModes(sol, i)) = 1
            /\ model.name = "onoff_model" =>
                  \A m \in ChosenModes(sol, i) : Block(sol, i, m, Norm.p[i][m])

\* C4 amended: in every encoding, every satisfying assignment has exactly one
\* mode with a non-zero indicator per activity, and in the on-off encoding
\* that mode is active on one gap-free block of p[i][m] instants when
\* p[i][m] > 0 and at exactly one instant when p[i][m] = 0 (onoff.py:45-49),
\* also when the block touches the last instant T-1.
C4_ExactlyOneModeContiguous ==
    Holding =>
        \A i \in Acts(input.n) :
            /\ Cardinality(ChosenModes(sol, i)) = 1
            /\ model.name = "onoff_model" =>
                  \A m \in ChosenModes(sol, i) : Block(sol, i, m, Max(Norm.p[i][m], 1))

\* C4 witness: an on-off assignment in which an activity with two modes of
\* duration 2 or more is active on a block that ends at the last instant T-1.
C4_Witness ==
    /\ Holding
    /\ model.name = "onoff_model"
    /\ \E i \in Acts(input.n) :
          /\ \A m \in Modes(input.M) : Norm.p[i][m] >= 2
          /\ \E m \in ChosenModes(sol, i) : (Norm.T - 1) \in Instants(sol, i, m)

\* C5: in every discrete encoding, for every satisfying assignment, every
\* instant t in 0..T-1 and every resource k, the requirements of the
\* activities whose decoded window [s, s + p) contains t sum to at most R[k].
C5_ResourceFeasible ==
    HoldingDiscrete =>
        \A t \in Times(Norm.T) : \A k \in Res(input.R) : Usage(Norm, sol, t, k) <= input.R[k]

\* C5 witness: a discrete assignment of a four-activity instance in which
\* both real activities need the resource and one of them runs at capacity.
C5_Witness ==
    /\ HoldingDiscrete
    /\ input.n = 4
    /\ \A i \in {1, 2} : \E m \in StartedModes(sol, i) :
            Norm.p[i][m] > 0 /\ Norm.r[i][m][0] > 0
    /\ \E t \in Times(Norm.T) : Usage(Norm, sol, t, 0) = input.R[0]

\* C6: in every encoding, every linked pair (i, j) of L has the same chosen
\* mode index in every satisfying assignment.
C6_LinkedSameMode ==
    Holding =>
        \A k \in DOMAIN input.L :
            \A mi \in ChosenModes(sol, input.L[k][1]) :
                \A mj \in ChosenModes(sol, input.L[k][2]) : mi = mj

\* C6 witness: a pulse assignment with a linked pair whose first activity
\* has two modes of different duration and runs in mode 1.
C6_Witness ==
    /\ Holding
    /\ model.name \in {"pulse_model", "onoff_pulse_model"}
    /\ input.L # <<>>
    /\ LET i == input.L[1][1]
           j == input.L[1][2]
       IN  /\ Norm.p[j][0] # Norm.p[j][1]
           /\ ChosenModes(sol, i) = {1}
           /\ ChosenModes(sol, j) = {1}

\* the record of results with the given model_name
ResultOf(name) == results[CHOOSE k \in DOMAIN results : results[k].model_name = name]

\* C7: on the same instance the minimum objective is the same number in all
\* eight encodings (compared on the records of the encodings that were
\* solved to optimality).
C7_AllEncodingsSameOptimum ==
    pc = "done" =>
        \A a, b \in DOMAIN results :
            (results[a].status = "OPTIMAL" /\ results[b].status = "OPTIMAL") =>
                results[a].objective = results[b].objective

\* C8: the aggregated and the disaggregated precedence variant of an
\* encoding report the same optimum on the same instance (compared once all
\* the encodings of the list have been run).
C8_AggregatedEqualsDisaggregated ==
    (pc = "done" /\ Len(results) = Len(AllModels)) =>
        /\ ResultOf("SDT").objective = ResultOf("SDDT").objective
        /\ ResultOf("PDT").objective = ResultOf("PDDT").objective
        /\ ResultOf("OOPDT").objective = ResultOf("OOPDDT").objective

\* the model of the same encoding built on the instance as given, durations
\* and T not divided
RawEarliest == get_earliest_start_time(input_base.n, input_base.M, input_base.E, input_base.p)
RawFeasible == Feasible(model.name, input_base, RawEarliest, VP)

\* C9: when the durations and the horizon share a divisor d > 1, the optimum
\* of the normalised model times the returned divisor equals the optimum of
\* the same encoding built without normalisation.
C9_NormalisationRoundTrip ==
    (pc = "solved" /\ divisor > 1 /\ \A i \in Acts(input.n) : RawEarliest[i] <= input_base.T) =>
        IF status = "INFEASIBLE" THEN RawFeasible = {}
        ELSE /\ RawFeasible # {}
             /\ objVal * divisor = Best(model.name, input_base, RawFeasible)

\* C10: a builder leaves the duration table p of its caller as it was.
C10_BuilderLeavesCallerP ==
    [][(pc = "copied" /\ pc' \in {"built", "failed"}) => input'.p = input.p]_vars

\* the values whose gcd the normalisation takes: T and every duration
OriginalValues(I) == {I.T} \cup {I.p[i][m] : i \in Acts(I.n), m \in Modes(I.M)}

\* d divides every value of S and no larger number does
IsGreatestCommonDivisor(d, S) ==
    /\ d >= 1
    /\ \A v \in S : v % d = 0
    /\ \A e \in 1..(-SetMin({-v : v \in S})) : (\A v \in S : v % e = 0) => e <= d

\* C11: test_models leaves input_base unchanged, every builder of the list
\* receives the original durations and horizon, and each returned divisor is
\* the gcd of the original values.
C11_DeepcopyIsolatesEncodings ==
    [][/\ input_base' = input_base
       /\ pc' = "copied" => (input'.p = input_base.p /\ input'.T = input_base.T)
       /\ pc' = "built" => IsGreatestCommonDivisor(divisor', OriginalValues(input_base))]_vars

\* C11 witness: a later encoding of the list has been built after an earlier
\* one rescaled its copy of the durations by a divisor above 1.
C11_Witness ==
    /\ pc = "built"
    /\ results # <<>>
    /\ divisor > 1
    /\ input.p # input_base.p
    /\ input.T = input_base.T

\* every duration of the instance is zero
AllDurationsZero(I) == \A i \in Acts(I.n) : \A m \in Modes(I.M) : I.p[i][m] = 0

\* C12: the divisor of a built model is the gcd of T and all durations and
\* divides them exactly (normalised value times divisor is the original
\* value); with all durations zero and T > 0 the divisor is T; with all
\* durations and T zero the builder fails and no model is returned.
C12_NormalisationExact ==
    /\ pc = "built" =>
          /\ IsGreatestCommonDivisor(divisor, OriginalValues(input_base))
          /\ \A i \in Acts(input.n) : \A m \in Modes(input.M) :
                input.p[i][m] * divisor = input_base.p[i][m]
          /\ model.T * divisor = input_base.T
          /\ (AllDurationsZero(input_base) /\ input_base.T > 0) => divisor = input_base.T
    /\ (AllDurationsZero(input_base) /\ input_base.T = 0) =>
          /\ pc \in {"loop", "copied", "failed"}
          /\ model = NoModel
          /\ results = <<>>

\* C12 witness: a model built with a divisor above 1 on an instance that has
\* a non-zero duration.
C12_Witness ==
    /\ pc = "built"
    /\ divisor > 1
    /\ ~AllDurationsZero(input_base)
    /\ input.p # input_base.p

\* the all-zero instance has been rejected by a builder
ZeroInstanceRejected ==
    pc = "failed" /\ AllDurationsZero(input_base) /\ input_base.T = 0

\* C13: for the chain n = 3, E = [(0,1),(1,2)], M = 1, p = [[0],[3],[0]],
\* R = [1], r[1][0][0] = 1, get_earliest_start_time on the given durations
\* returns [0,0,3], and for every horizon T >= 4 every encoding is solved to
\* an optimum whose objective times the divisor is 3.
C13_ChainMakespanThree ==
    input_base \in ChainInstances =>
        /\ RawEarliest = (0 :> 0 @@ 1 :> 0 @@ 2 :> 3)
        /\ pc \in {"built", "incumbent"} => model.feasible # {}
        /\ pc = "solved" => (status = "OPTIMAL" /\ objVal * divisor = 3)
        /\ \A k \in DOMAIN results :
              results[k].status = "OPTIMAL" /\ results[k].objective = 3

\* C13 witness: the on-off model of the chain with horizon 6, normalised by
\* the divisor 3, has been solved.
C13_Witness ==
    /\ input_base \in ChainInstances
    /\ input_base.T = 6
    /\ pc = "solved"
    /\ model.name = "onoff_model"
    /\ divisor = 3

(***************************************************************************)
(* Further claims about the bound estimator (SpecBounds).                  *)
(***************************************************************************)
\* C14: when the edge list E contains a cycle, bound estimation does not
\* return a list of start times (it fails with CyclicPrecedenceError), so a
\* returned list means that E is acyclic.
C14_CyclicEdgesRejected ==
    pc \in {"earliest", "latest"} => Acyclic(input.n, input.E)

\* every edge goes from a smaller to a larger index
TopologicallyNumbered(E) == \A k \in DOMAIN E : E[k][1] < E[k][2]

\* activity i is the sink or has a path to it
ReachesSink(n, E, i) == i = n - 1 \/ <<i, n - 1>> \in Reach(n, E, n)

\* the length of the longest path from i to the sink n-1, every activity on
\* it counted with its maximum mode duration (E topologically numbered)
RECURSIVE LongestRemainingPath(_, _)
LongestRemainingPath(I, i) ==
    IF i = I.n - 1 THEN 0
    ELSE MaxOverModes(I.p, i, I.M)
           - SetMin({-LongestRemainingPath(I, I.E[k][2]) :
                        k \in {h \in DOMAIN I.E : /\ I.E[h][1] = i
                                                   /\ ReachesSink(I.n, I.E, I.E[h][2])}})

\* C16: for every acyclic, topologically numbered instance and every
\* activity i with a path to the sink, get_latest_start_time(...)[i] is T
\* minus the length of the longest path from i to the sink measured with
\* maximum mode durations.
C16_LatestIsHorizonMinusLongestPath ==
    (pc = "latest" /\ Acyclic(input.n, input.E) /\ TopologicallyNumbered(input.E)) =>
        \A i \in Acts(input.n) :
            ReachesSink(input.n, input.E, i) =>
                latest[i] = input.T - LongestRemainingPath(input, i)

(***************************************************************************)
(* Further claims about the encodings and the harness (Spec).              *)
(***************************************************************************)
\* the non-dummy activities
RealActs(n) == 1..(n - 2)

\* C15: when a non-dummy activity has duration zero in some mode, the on-off
\* builder returns no model (it surfaces UnsupportedZeroDurationActivity),
\* and no on-off assignment executes a non-dummy activity in a zero-duration
\* mode by one active instant.
C15_OnOffRejectsZeroDuration ==
    (model.name = "onoff_model" /\ pc \in {"built", "incumbent"}) =>
        /\ \A i \in RealActs(input.n) : \A m \in Modes(input.M) : Norm.p[i][m] > 0
        /\ pc = "incumbent" =>
              \A i \in RealActs(input.n) : \A m \in ChosenModes(sol, i) : Norm.p[i][m] > 0

\* the pairs of a list of pairs, as a set
PairSet(s) == {s[k] : k \in DOMAIN s}

\* C18: the VP handed to a builder contains the ordered pair (i, j) exactly
\* when i # j and neither (i, j) nor (j, i) is in E; hence VP is symmetric,
\* disjoint from E and from E reversed, and every pair of distinct
\* activities is either in VP or precedence-related by E, never both.
C18_NonOrderedPairsExact ==
    pc = "copied" =>
        LET P == PairSet(VP)
            Ed == PairSet(input.E)
            Related(i, j) == <<i, j>> \in Ed \/ <<j, i>> \in Ed
        IN  /\ P \subseteq Acts(input.n) \X Acts(input.n)
            /\ \A i, j \in Acts(input.n) : <<i, j>> \in P <=> (i # j /\ ~Related(i, j))
            /\ \A i, j \in Acts(input.n) : <<i, j>> \in P => <<j, i>> \in P
            /\ P \cap Ed = {}
            /\ \A e \in Ed : <<e[2], e[1]>> \notin P
            /\ \A i, j \in Acts(input.n) : i # j => (<<i, j>> \in P) # Related(i, j)

\* C18 witness: VP has been derived for an instance with edges in which two
\* real activities are not precedence-related.
C18_Witness ==
    /\ pc = "copied"
    /\ input.E # <<>>
    /\ <<1, 2>> \in PairSet(VP)
    /\ <<2, 1>> \in PairSet(VP)
    /\ <<0, 1>> \notin PairSet(VP)

(***************************************************************************)
(* Claims about input errors (SpecCyclic).                                 *)
(***************************************************************************)
\* C17: for an input error (an edge list with a cycle, or durations and
\* horizon all zero) the builder fails before it emits a model, so no model
\* of that formulation exists, optimize is not invoked and nothing is
\* recorded.
C17_InputErrorsAbortBeforeBuild ==
    (~Acyclic(input_base.n, input_base.E)
       \/ (AllDurationsZero(input_base) /\ input_base.T = 0)) =>
        /\ pc \in {"loop", "copied", "failed"}
        /\ model = NoModel
        /\ results = <<>>


\* the names of the encodings in a list of (name, builder) pairs or of records
ModelNames(l) == [k \in DOMAIN l |-> l[k].model_name]

\* C19: a step that reports an encoding appends exactly one record, for the
\* encoding at the head of the remaining list; its objective is -1 exactly
\* when the solver's status is infeasible and the solver's objective value
\* times the divisor of that encoding otherwise; status, gap, runtime,
\* variable count and constraint count are the solver's values; and the
\* records reported so far, followed by the encodings still to run, name
\* the encodings in the order they were given
C19_RecordPerEncoding ==
    [][/\ ModelNames(results') \o ModelNames(models') = ModelNames(results) \o ModelNames(models)
       /\ results' # results =>
            LET rec == results'[Len(results')]
            IN  /\ pc = "solved"
                /\ results' = Append(results, rec)
                /\ rec.model_name = Head(models).model_name
                /\ rec.status = status
                /\ (rec.objective = -1) <=> (status = "INFEASIBLE")
                /\ status # "INFEASIBLE" => rec.objective = objVal * divisor
                /\ rec.gap = model.MIPGap
                /\ rec.runtime = model.Runtime
                /\ rec.variables = NumVars(model.name, Norm)
                /\ rec.constraints = NumConstrs(model.name, Norm, earliest, VP)
       /\ (pc = "solved" /\ pc' # "solved") => results' # results]_vars

\* all the encodings were run, one of them on durations that were divided
\* by more than 1 and one of them infeasible
C19_Witness ==
    /\ pc = "done"
    /\ ModelNames(results) = ModelNames(AllModels)
    /\ divisor > 1
    /\ \E k \in DOMAIN results : results[k].status = "INFEASIBLE" /\ results[k].objective = -1
    /\ \E k \in DOMAIN results : results[k].status = "OPTIMAL" /\ results[k].objective > 1


\* activity i starts while activity j runs
StartsDuring(I, S, x, i, j) == S[j] <= S[i] /\ S[i] < S[j] + ChosenDur(I, x, j)

\* the schedules of the normalised instance I that keep every activity
\* within the horizon and every edge of E and pair of L, in which the
\* starts of a non-ordered pair are less than T apart (the range that
\* z[i, j] of continuous.py:61 can express), every activity fits the
\* capacities on its own and every non-ordered pair that runs at
\* overlapping times fits them together
PairwiseFeasible(I, est, VPs) ==
    {s \in [kind : {"continuous"}, S : [Acts(I.n) -> 0..I.T],
            x : [Acts(I.n) -> SUBSET Modes(I.M)]] :
        /\ ContExecute(I, s.x)
        /\ ContEarliest(I, est, s.S)
        /\ \A i \in Acts(I.n) : s.S[i] + ChosenDur(I, s.x, i) <= I.T
        /\ AllPairs(LAMBDA i, j : ContPrecedence(I, s.S, s.x, i, j), I.E)
        /\ AllPairs(LAMBDA i, j : ContLinked(I, s.x, i, j), I.L)
        /\ AllPairs(LAMBDA i, j : s.S[j] - s.S[i] < I.T, VPs)
        /\ \A i \in Acts(I.n) : \A k \in Res(I.R) : ChosenReq(I, s.x, i, k) <= I.R[k]
        /\ AllPairs(LAMBDA j, i :
                StartsDuring(I, s.S, s.x, i, j) =>
                    \A k \in Res(I.R) :
                        ChosenReq(I, s.x, i, k) + ChosenReq(I, s.x, j, k) <= I.R[k],
                VPs)}

\* C20: the continuous model admits every schedule in which the non-ordered
\* pairs that run at overlapping times have chosen-mode requirements that
\* sum to at most R[k] for every resource k, whatever the size of the
\* requirements
C20_OverlapWithinCapacityAdmitted ==
    (pc = "built" /\ model.name = "continuous_model") =>
        PairwiseFeasible(Norm, earliest, VP) \subseteq model.feasible


(***************************************************************************)
(* Claims about what the earliest start times mean (SpecBounds, Spec).     *)
(***************************************************************************)
\* the length of the longest path that ends at i, every activity before i
\* on it counted with its minimum mode duration; 0 without a predecessor
\* (E topologically numbered)
RECURSIVE LongestPathTo(_, _)
LongestPathTo(I, i) ==
    LET into == {h \in DOMAIN I.E : I.E[h][2] = i}
    IN  IF into = {} THEN 0
        ELSE -SetMin({-(LongestPathTo(I, I.E[h][1]) + MinDur(I.p, I.E[h][1], I.M)) :
                         h \in into})

\* C21: when every edge (j, i) of E has j < i, get_earliest_start_time
\* returns for every activity i the length of the longest path ending at i,
\* measured with minimum mode durations, whatever the order of the edges in
\* the list
C21_EarliestIsLongestPath ==
    (pc \in {"earliest", "latest"} /\ TopologicallyNumbered(input.E)) =>
        \A i \in Acts(input.n) : earliest[i] = LongestPathTo(input, i)

\* the chain 0 -> 1 -> 2 listed with its second edge first, both activities
\* before the sink with positive minimum duration
C21_Witness ==
    /\ pc = "earliest"
    /\ input.E = << <<1, 2>>, <<0, 1>> >>
    /\ MinDur(input.p, 0, input.M) > 0
    /\ MinDur(input.p, 1, input.M) > 0
    /\ earliest[2] = MinDur(input.p, 0, input.M) + MinDur(input.p, 1, input.M)


\* the choices of one mode and one start time in 0..T per activity that
\* satisfy every edge of E
PrecedenceFeasible(I) ==
    {c \in [mode : [Acts(I.n) -> Modes(I.M)], start : [Acts(I.n) -> 0..I.T]] :
        \A k \in DOMAIN I.E :
            c.start[I.E[k][1]] + I.p[I.E[k][1]][c.mode[I.E[k][1]]] <= c.start[I.E[k][2]]}

\* the indicators of activity i that are 1 when it runs as c says: the start
\* cell (pulse), the cells from the start on (step), the cells of the
\* execution window (on-off)
PulseRowOf(I, c, i) == {<<c.mode[i], c.start[i]>>} \cap Cells(I)
StepRowOf(I, c, i) == {<<c.mode[i], t>> : t \in c.start[i]..(I.T - 1)}
OnOffRowOf(I, c, i) ==
    {<<c.mode[i], t>> : t \in c.start[i]..(c.start[i] + I.p[i][c.mode[i]] - 1)} \cap Cells(I)

\* C22: whatever the edge list, every choice of modes and non-negative start
\* times that satisfies all edges starts every activity i no earlier than
\* get_earliest_start_time(...)[i], so its indicators satisfy the
\* zero_time_slots / earliest_start_times constraints of every encoding
C22_TighteningKeepsSchedules ==
    pc = "earliest" =>
        \A c \in PrecedenceFeasible(input) :
            \A i \in Acts(input.n) :
                /\ c.start[i] >= earliest[i]
                /\ ZeroTimeSlots(input, earliest, i, PulseRowOf(input, c, i))
                /\ ZeroTimeSlots(input, earliest, i, StepRowOf(input, c, i))
                /\ ZeroTimeSlots(input, earliest, i, OnOffRowOf(input, c, i))

\* an acyclic edge list that is not topologically numbered, an estimate
\* above zero, and a schedule that meets the estimate exactly
C22_Witness ==
    /\ pc = "earliest"
    /\ Acyclic(input.n, input.E)
    /\ ~TopologicallyNumbered(input.E)
    /\ \E i \in Acts(input.n) :
          /\ earliest[i] > 0
          /\ \E c \in PrecedenceFeasible(input) : c.start[i] = earliest[i]


\* the same on the models the builders emit (Spec): an assignment that
\* satisfies the constraints of the model without the bound-tightening ones
\* and decodes to starts that satisfy every edge satisfies the model as built
TightenedModelKeepsSchedules ==
    pc = "built" =>
        \A s \in Feasible(model.name, Norm, [i \in Acts(input.n) |-> 0], VP) :
            (\A k \in DOMAIN input.E :
                LET i == input.E[k][1]
                    j == input.E[k][2]
                IN  \A mi \in StartedModes(s, i) : \A mj \in StartedModes(s, j) :
                        StartOf(s, i, mi) + Norm.p[i][mi] <= StartOf(s, j, mj))
            => s \in model.feasible


(***************************************************************************)
(* Claim about the indices of the bound-tightening constraints (Spec).     *)
(***************************************************************************)
\* the critical path of the instance, measured by the earliest start times
\* on the normalised durations, is longer than the normalised horizon
CriticalPathExceedsHorizon(I) ==
    LET d == Divisor(I.n, I.M, I.p, I.T)
    IN  /\ d # 0
        /\ \E i \in Acts(I.n) :
              get_earliest_start_time(I.n, I.M, I.E, NormalizedP(I.n, I.M, I.p, d))[i]
                  > I.T \div d

\* C23: for an instance with non-negative durations whose critical path is
\* longer than the horizon, no builder fails: the bound-tightening
\* constraints only index declared indicators (0 <= t <= T-1), a model is
\* returned, and the solver reports it infeasible
C23_LongPathBuildsInfeasibleModel ==
    CriticalPathExceedsHorizon(input_base) =>
        /\ pc # "failed"
        /\ pc \in {"built", "incumbent"} => model.feasible = {}
        /\ pc = "solved" => status = "INFEASIBLE"

\* a discrete builder has failed on the chain whose critical path is longer
\* than the horizon
LongPathBuildFailed ==
    /\ pc = "failed"
    /\ CriticalPathExceedsHorizon(input_base)
    /\ Head(models).model_init \in Discrete

====
